---- MODULE Spec2Model ----
(***************************************************************************)
(* The sync -> classify pipeline of cannect-intel-v2:                      *)
(*   sync.py                 legacy SQLite posts -> PostgreSQL posts       *)
(*   classifier_parallel.py  unprocessed posts -> post_classifications     *)
(* Tables are sequences of rows (a row's serial id is its position), so    *)
(* that uniqueness of a key is a property of the upsert and not of the     *)
(* representation.  NULL is the empty sequence, a value v is <<v>>.        *)
(***************************************************************************)
EXTENDS Integers, Sequences, FiniteSets, TLC

\* ------------------------------------------------------------- bounds
MaxTime == 3
MaxSyncRuns == 2
MaxSourceRows == 2
MaxWorkers == 2
MaxBatch == 2
MaxClassRows == 3
MaxSpanDays == 30
MaxPostCount == 7

\* ------------------------------------------------------------- values
NULL == <<>>
Some(v) == <<v>>
IsNull(o) == o = NULL
Val(o) == o[1]

\* The uris the legacy indexer captures, in the order it captures them.
Uris == <<"at://a/1", "at://b/1", "at://a/2", "at://b/2">>
AuthorOf(u) == IF u \in {"at://b/1", "at://b/2"} THEN "did:b" ELSE "did:a"

\* The shapes of timestamp text parse_timestamp distinguishes.
\*   isoz    2026-01-0dTss.000Z    ISO-8601 with a zone marker
\*   sqlite  2026-01-0d ss         the naive SQLite form
\*   bad     not a timestamp (letters)
\*   null    NULL or the empty string
Formats == {"isoz", "sqlite", "bad", "null"}

\* Two clock values make one calendar day.
Day(t) == t \div 2

Min(a, b) == IF a <= b THEN a ELSE b

SetMax(S) == CHOOSE x \in S : \A y \in S : y <= x

Range(s) == {s[i] : i \in 1..Len(s)}

VARIABLES
    now,                  \* wall clock (NOW(), datetime.now(), time.time())
    source,               \* legacy SQLite posts table: a set of rows, keyed by uri
    indexer,              \* what the legacy indexer writes: timestamp shapes, texts
    posts,                \* PostgreSQL posts table
    post_classifications, \* PostgreSQL post_classifications table
    sync_log,             \* PostgreSQL sync_log table
    sync_outcome,         \* what the last sync_posts() call did: return value or raise
    synced_source,        \* the snapshot the last completed sync_posts() read
    sync_calls,           \* number of sync_posts() calls so far
    scp_returncode,       \* result.returncode of the last download
    LOCAL_DB_COPY,        \* the file /tmp/posts_sync.db: NULL when it does not exist
    sync_loop,            \* the `while True` loop of sync.py --continuous
    MAX_CONCURRENT,       \* module global, reassigned from --workers
    batch_size,           \* --batch
    runs,                 \* the classifier processes that exist
    pc,                   \* per run: position in process_batch_async
    batch,                \* per run: the posts get_unprocessed_posts returned
    task,                 \* per run: post id -> state of its classify_post_async
    semaphore,            \* per run: free slots of the asyncio.Semaphore
    saveIdx,              \* per run: position of the save loop in results
    processed,            \* per run: local counter of the save loop
    errors,               \* per run: local counter of the save loop
    returned,             \* per run: what the last process_batch_async returned
    user_profiles,        \* PostgreSQL user_profiles table
    min_posts,            \* --min-posts of the aggregation run
    users,                \* build_all_profiles: what get_users_with_posts returned
    pf_pc,                \* build_all_profiles: "idle", "loop" or "done"
    pf_i,                 \* build_all_profiles: position of the loop in users
    pf_errors,            \* build_all_profiles: the authors logger.error named
    shutdown,             \* a request to stop was made to the processes
    call                  \* the last call of a function on its own: name, arguments, result

dbVars == <<posts, post_classifications, sync_log>>
syncVars == <<sync_outcome, synced_source, sync_calls, scp_returncode, LOCAL_DB_COPY, sync_loop>>
cfgVars == <<indexer, MAX_CONCURRENT, batch_size, runs>>
runVars == <<pc, batch, task, semaphore, saveIdx, processed, errors, returned>>
profVars == <<user_profiles, min_posts, users, pf_pc, pf_i, pf_errors>>
vars == <<now, source, dbVars, syncVars, cfgVars, call, profVars, shutdown, runVars>>

\* ===================================================================
\* sync.py
\* ===================================================================

\* datetime.now(): naive local time.
Naive(t) == [t |-> t, aware |-> FALSE]

\* parse_timestamp: fromisoformat after Z -> +00:00 accepts both the zoned
\* ISO form (an aware datetime) and the SQLite form (a naive one); anything
\* else, and the empty string or NULL, become the current wall-clock time.
parse_timestamp(ts, clock) ==
    CASE ts.fmt = "isoz" -> [t |-> ts.t, aware |-> TRUE]
      [] ts.fmt = "sqlite" -> Naive(ts.t)
      [] OTHER -> Naive(clock)

\* SELECT MAX(indexed_at) FROM posts
WatermarkOf(tbl) ==
    IF Len(tbl) = 0 THEN NULL
    ELSE Some(SetMax({tbl[i].indexed_at : i \in 1..Len(tbl)}))

get_last_sync_timestamp == WatermarkOf(posts)

\* Order of timestamp text as SQLite compares it (bytewise): NULL first, then
\* the date, then the separator (' ' < 'T'), then the time; letters sort
\* after digits.
TextKey(ts) ==
    CASE ts.fmt = "null" -> <<0, 0, 0, 0>>
      [] ts.fmt = "sqlite" -> <<1, Day(ts.t), 0, ts.t>>
      [] ts.fmt = "isoz" -> <<1, Day(ts.t), 1, ts.t>>
      [] OTHER -> <<2, 0, 0, 0>>

LexLess(a, b) ==
    \E i \in 1..4 : a[i] < b[i] /\ \A j \in 1..(i - 1) : a[j] = b[j]

TextLess(a, b) == LexLess(TextKey(a), TextKey(b))

\* indexed_at > ? with ? = last_sync.isoformat() = 2026-01-0dTss[+00:00].
\* NULL compares as unknown.  A zoned ISO text of the same second is longer
\* than (or continues with '.' or 'Z' after) the bound, hence greater.
IndexedAfter(ts, w) ==
    /\ ts.fmt # "null"
    /\ \/ LexLess(<<1, Day(w), 1, w>>, TextKey(ts))
       \/ ts.fmt = "isoz" /\ ts.t = w

\* The rows of the snapshot the run selects (lines 98-114).
RowsToSync(snapshot, last_sync) ==
    IF IsNull(last_sync) THEN snapshot
    ELSE {r \in snapshot : IndexedAfter(r.indexed_at, Val(last_sync))}

\* ORDER BY indexed_at ASC: rows of equal text come in any order.
OrderedAsc(S) ==
    {s \in [1..Cardinality(S) -> S] :
        /\ \A i, j \in 1..Cardinality(S) : i # j => s[i] # s[j]
        /\ \A i, j \in 1..Cardinality(S) :
              i < j => ~TextLess(s[j].indexed_at, s[i].indexed_at)}

\* The texts a facets or langs column holds: nothing, a JSON array with an
\* element, the empty JSON array, or text that is no JSON.
JsonTexts == {NULL, Some("[x]"), Some("[]"), Some("x")}

\* facets (lines 133-138, 156): the text parsed and dumped again; None when
\* the column is empty, does not parse, or parses to an empty value.
ParseFacets(text) == IF text = Some("[x]") THEN text ELSE NULL

\* langs (lines 141-146): the parsed array, also an empty one; text that
\* does not parse becomes the array of that text.
ParseLangs(text) ==
    CASE text = Some("[x]") -> Some(<<"x">>)
      [] text = Some("[]") -> Some(<<>>)
      [] text = Some("x") -> Some(<<"x">>)
      [] OTHER -> NULL

\* bool(row['has_media']) if row['has_media'] is not None else False
HasMedia(flag) == IF IsNull(flag) THEN FALSE ELSE Val(flag) # 0

\* One tuple of posts_data (lines 148-162).
PostData(row, clock) ==
    [uri |-> row.uri,
     author_did |-> row.author_did,
     author_handle |-> row.author_handle,
     post_created_at |-> parse_timestamp(row.created_at, clock).t,
     indexed_at |-> parse_timestamp(row.indexed_at, clock).t,
     text_content |-> row.text,
     facets |-> ParseFacets(row.facets),
     langs |-> ParseLangs(row.langs),
     has_media |-> HasMedia(row.has_media),
     embed_type |-> row.embed_type]

COALESCE(a, b) == IF IsNull(a) THEN b ELSE a

\* A row as first inserted: the columns the INSERT does not name take their
\* defaults.
NewPost(tbl, d) ==
    [id |-> Len(tbl) + 1,
     uri |-> d.uri,
     author_did |-> d.author_did,
     author_handle |-> d.author_handle,
     post_created_at |-> d.post_created_at,
     indexed_at |-> d.indexed_at,
     text_content |-> d.text_content,
     facets |-> d.facets,
     langs |-> d.langs,
     has_media |-> d.has_media,
     embed_type |-> d.embed_type,
     processed_at |-> NULL,
     classification_version |-> 0]

\* Mutant: the DO UPDATE SET list also takes indexed_at from the incoming row.
MergePost_OverwriteIndexedAt(old, d) ==
    [old EXCEPT !.text_content = COALESCE(d.text_content, old.text_content),
                !.facets = COALESCE(d.facets, old.facets),
                !.langs = COALESCE(d.langs, old.langs),
                !.has_media = d.has_media,
                !.embed_type = d.embed_type,
                !.indexed_at = d.indexed_at]

\* Mutant: the DO UPDATE SET list also puts the row back to "not classified".
MergePost_ResetProcessed(old, d) ==
    [old EXCEPT !.text_content = COALESCE(d.text_content, old.text_content),
                !.facets = COALESCE(d.facets, old.facets),
                !.langs = COALESCE(d.langs, old.langs),
                !.has_media = d.has_media,
                !.embed_type = d.embed_type,
                !.processed_at = NULL,
                !.classification_version = 0]

\* The DO UPDATE SET list on the row that holds the uri.
MergePost(old, d) ==
    [old EXCEPT !.text_content = COALESCE(d.text_content, old.text_content),
                !.facets = COALESCE(d.facets, old.facets),
                !.langs = COALESCE(d.langs, old.langs),
                !.has_media = d.has_media,
                !.embed_type = d.embed_type]

\* Mutant: a plain INSERT into a table without the unique index on uri.
UpsertPost_InsertOnly(tbl, d) == Append(tbl, NewPost(tbl, d))

\* INSERT INTO posts ... ON CONFLICT (uri) DO UPDATE SET ... for one tuple.
UpsertPost(tbl, d) ==
    IF \E i \in 1..Len(tbl) : tbl[i].uri = d.uri
    THEN LET i == CHOOSE k \in 1..Len(tbl) : tbl[k].uri = d.uri
         IN [tbl EXCEPT ![i] = MergePost(tbl[i], d)]
    ELSE Append(tbl, NewPost(tbl, d))

RECURSIVE UpsertPosts(_, _, _)
UpsertPosts(tbl, rows, clock) ==
    IF rows = <<>> THEN tbl
    ELSE UpsertPosts(UpsertPost(tbl, PostData(Head(rows), clock)), Tail(rows), clock)

\* max(...) over datetimes raises TypeError when naive and aware ones meet.
MixedAwareness(rows, clock) ==
    \E a, b \in rows :
        parse_timestamp(a.indexed_at, clock).aware
            # parse_timestamp(b.indexed_at, clock).aware

SyncLogRow(n, last, clock) ==
    [completed_at |-> clock, posts_synced |-> n, last_indexed_at |-> last,
     status |-> "success"]

\* What scp can end with.
ReturnCodes == {0, 1}

\* Mutant: the return code of scp is not looked at.
DownloadFails_Ignored(returncode) == FALSE

\* download_sqlite_db raises when scp did not return 0.
DownloadFails(returncode) == returncode # 0

\* The file LOCAL_DB_COPY once scp has ended: the legacy table as it is now,
\* or whatever was there before when the transfer failed.
Downloaded(returncode) == IF returncode = 0 THEN Some(source) ELSE LOCAL_DB_COPY

\* Mutant: the connection commits every statement as it is executed.
Rollback_KeepsWrites(committed, working) == working

\* Leaving `with get_pg_connection() as conn` on an exception rolls back
\* what the block executed.
Rollback(committed, working) == committed

\* `except Exception` inside `while True`: log, sleep, next cycle.
SyncLoopAfterException(loop) == loop

\* download_sqlite_db raises: the run ends before it read or wrote anything.
sync_download_failed ==
    /\ sync_calls < MaxSyncRuns
    /\ sync_loop = "running"
    /\ \E rc \in ReturnCodes :
          /\ DownloadFails(rc)
          /\ scp_returncode' = rc
          /\ LOCAL_DB_COPY' = Downloaded(rc)
    /\ sync_calls' = sync_calls + 1
    /\ sync_outcome' = "raised"
    /\ sync_loop' = SyncLoopAfterException(sync_loop)
    /\ UNCHANGED <<now, source, dbVars, synced_source, cfgVars, call, profVars, shutdown, runVars>>

\* sync_posts with nothing to transfer (lines 117-127): the early return
\* leaves the downloaded file in place.
sync_no_rows ==
    /\ sync_calls < MaxSyncRuns
    /\ sync_loop = "running"
    /\ \E rc \in ReturnCodes :
          /\ ~DownloadFails(rc)
          /\ ~IsNull(Downloaded(rc))
          /\ RowsToSync(Val(Downloaded(rc)), get_last_sync_timestamp) = {}
          /\ scp_returncode' = rc
          /\ LOCAL_DB_COPY' = Downloaded(rc)
          /\ synced_source' = Downloaded(rc)
    /\ sync_log' = Append(sync_log, SyncLogRow(0, get_last_sync_timestamp, now))
    /\ sync_calls' = sync_calls + 1
    /\ sync_outcome' = "returned"
    /\ UNCHANGED <<now, source, posts, post_classifications, sync_loop, cfgVars, call, profVars, shutdown, runVars>>

\* sync_posts when max() raises inside the transaction: the upsert was
\* executed, the log row was not, the block is left by the exception.
sync_rows_raise ==
    /\ sync_calls < MaxSyncRuns
    /\ sync_loop = "running"
    /\ \E rc \in ReturnCodes :
          /\ ~DownloadFails(rc)
          /\ ~IsNull(Downloaded(rc))
          /\ RowsToSync(Val(Downloaded(rc)), get_last_sync_timestamp) # {}
          /\ MixedAwareness(RowsToSync(Val(Downloaded(rc)), get_last_sync_timestamp), now)
          /\ \E rows \in OrderedAsc(RowsToSync(Val(Downloaded(rc)), get_last_sync_timestamp)) :
                posts' = Rollback(posts, UpsertPosts(posts, rows, now))
          /\ scp_returncode' = rc
          /\ LOCAL_DB_COPY' = Downloaded(rc)
    /\ sync_calls' = sync_calls + 1
    /\ sync_outcome' = "raised"
    /\ sync_loop' = SyncLoopAfterException(sync_loop)
    /\ UNCHANGED <<now, source, post_classifications, sync_log, synced_source,
                   cfgVars, call, profVars, shutdown, runVars>>

\* sync_posts transferring rows (lines 129-197): upsert and log in one commit,
\* then the downloaded file is removed.  The log's watermark is computed by
\* parsing indexed_at again, after the tuples were built.
sync_rows ==
    /\ sync_calls < MaxSyncRuns
    /\ sync_loop = "running"
    /\ \E rc \in ReturnCodes :
          /\ ~DownloadFails(rc)
          /\ ~IsNull(Downloaded(rc))
          /\ RowsToSync(Val(Downloaded(rc)), get_last_sync_timestamp) # {}
          /\ ~MixedAwareness(RowsToSync(Val(Downloaded(rc)), get_last_sync_timestamp), now)
          /\ \E rows \in OrderedAsc(RowsToSync(Val(Downloaded(rc)), get_last_sync_timestamp)) :
             \E later \in now..Min(now + 1, MaxTime) :
                /\ posts' = UpsertPosts(posts, rows, now)
                /\ sync_log' = Append(sync_log,
                      SyncLogRow(Len(rows),
                          Some(SetMax({parse_timestamp(r.indexed_at, later).t : r \in Range(rows)})),
                          later))
                /\ now' = later
          /\ scp_returncode' = rc
          /\ synced_source' = Downloaded(rc)
    /\ LOCAL_DB_COPY' = NULL
    /\ sync_calls' = sync_calls + 1
    /\ sync_outcome' = "returned"
    /\ UNCHANGED <<source, post_classifications, sync_loop, cfgVars, call, profVars, shutdown, runVars>>

sync_posts == sync_download_failed \/ sync_no_rows \/ sync_rows_raise \/ sync_rows

\* ===================================================================
\* environment: the clock and the legacy indexer
\* ===================================================================

Tick ==
    /\ now < MaxTime
    /\ now' = now + 1
    /\ UNCHANGED <<source, dbVars, syncVars, cfgVars, call, profVars, shutdown, runVars>>


\* The columns of a legacy row the indexer fills from the post's record and
\* the author's profile.
SourceRow(u, handle, indexed_at, created_at, text, media) ==
    [uri |-> u, author_did |-> AuthorOf(u), author_handle |-> handle,
     indexed_at |-> indexed_at, created_at |-> created_at, text |-> text,
     facets |-> media.facets, langs |-> media.langs,
     has_media |-> media.has_media, embed_type |-> media.embed_type]

\* A post of text alone, and a post with a link facet, a language and images.
PlainMedia == [facets |-> NULL, langs |-> NULL, has_media |-> NULL, embed_type |-> NULL]
RichMedia ==
    [facets |-> Some("[x]"), langs |-> Some("x"), has_media |-> Some(1),
     embed_type |-> Some("images")]

\* The legacy indexer captures a post it has not seen: indexed_at is its
\* capture time.
SourceInsert ==
    /\ Cardinality(source) < Min(MaxSourceRows, Len(Uris))
    /\ \E f \in indexer.formats, x \in indexer.texts, c \in indexer.created,
          h \in indexer.handles, m \in indexer.media :
       LET u == Uris[Cardinality(source) + 1] IN
          /\ source' = source \cup
                {SourceRow(u, h, [t |-> now, fmt |-> f], c, x, m)}
    /\ UNCHANGED <<now, dbVars, syncVars, cfgVars, call, profVars, shutdown, runVars>>

\* The legacy indexer writes a post it holds again (the author changed the
\* handle, the record was fetched again): the row of the uri is replaced,
\* indexed_at is the time of the new capture.
SourceReindex ==
    /\ \E old \in source, f \in indexer.formats, c \in indexer.recaptures :
       LET new == SourceRow(old.uri, c.author_handle, [t |-> now, fmt |-> f],
                            old.created_at, c.text, c.media) IN
          /\ new # old
          /\ source' = (source \ {old}) \cup {new}
    /\ UNCHANGED <<now, dbVars, syncVars, cfgVars, call, profVars, shutdown, runVars>>

\* ===================================================================
\* classifier_parallel.py
\* ===================================================================

MODEL_VERSION == "deepseek-chat-20260131"

\* What one call to client.chat.completions.create ends in, and the
\* milliseconds it took: a JSON object, a JSON object wrapped in other text,
\* text that is no JSON at all, or an exception (network error, timeout).
ClassifierOutcomes ==
    {[kind |-> "json", body |-> [purchase_intent |-> 60, sentiment_score |-> 40],
      elapsed_ms |-> 120],
     [kind |-> "json",
      body |-> [purchase_intent |-> 150, sentiment_score |-> -150, confidence |-> 95],
      elapsed_ms |-> 450],
     [kind |-> "wrapped", body |-> [purchase_intent |-> 60, sentiment_score |-> 40],
      elapsed_ms |-> 120],
     [kind |-> "garbage", elapsed_ms |-> 120],
     [kind |-> "error", elapsed_ms |-> 450]}

\* dict.get(key, default)
Get(d, key, default) == IF key \in DOMAIN d THEN Some(d[key]) ELSE default

\* WHERE processed_at IS NULL AND text_content IS NOT NULL AND text_content != ''
Unprocessed(tbl) ==
    {i \in 1..Len(tbl) :
        /\ IsNull(tbl[i].processed_at)
        /\ ~IsNull(tbl[i].text_content)
        /\ Val(tbl[i].text_content) # ""}

\* Mutant: the SELECT without its ORDER BY.
get_unprocessed_posts_Unordered(tbl, limit) ==
    LET E == Unprocessed(tbl)
        k == Min(limit, Cardinality(E))
    IN {s \in [1..k -> E] : \A i, j \in 1..k : i # j => s[i] # s[j]}

\* get_unprocessed_posts: ORDER BY post_created_at DESC LIMIT limit.  Posts
\* of equal post_created_at come in any order.
get_unprocessed_posts(tbl, limit) ==
    LET E == Unprocessed(tbl)
        k == Min(limit, Cardinality(E))
    IN {s \in [1..k -> E] :
           /\ \A i, j \in 1..k : i # j => s[i] # s[j]
           /\ \A i, j \in 1..k :
                 i < j => tbl[s[i]].post_created_at >= tbl[s[j]].post_created_at
           /\ \A e \in E \ {s[i] : i \in 1..k} :
                 \A i \in 1..k : tbl[s[i]].post_created_at >= tbl[e].post_created_at}

\* json.loads(response.choices[0].message.content)
json_loads(outcome) ==
    IF outcome.kind = "json" THEN Some(outcome.body) ELSE NULL

\* The tuple classify_post_async returns, without the post id: the parsed
\* object with processing_ms and model_version set and no error, or None and
\* the error on any exception.
ClassifyResult(outcome) ==
    IF outcome.kind = "error"
    THEN [classification |-> NULL, error |-> Some("APIError")]
    ELSE IF IsNull(json_loads(outcome))
    THEN [classification |-> NULL, error |-> Some("JSONDecodeError")]
    ELSE [classification |->
              Some([body |-> Val(json_loads(outcome)),
                    processing_ms |-> outcome.elapsed_ms,
                    model_version |-> MODEL_VERSION]),
          error |-> NULL]

\* The row of the INSERT's VALUES list (lines 214-253).
ClassificationRow(post_id, c, clock) ==
    [post_id |-> post_id,
     model_version |-> c.model_version,
     confidence |-> Val(Get(c.body, "confidence", Some(80))),
     processing_ms |-> c.processing_ms,
     classified_at |-> clock,
     experience_level |-> Get(c.body, "experience_level", NULL),
     consumer_type |-> Get(c.body, "consumer_type", NULL),
     purchase_intent |-> Get(c.body, "purchase_intent", NULL),
     effects_mentioned |-> Get(c.body, "effects_mentioned", NULL),
     sentiment_score |-> Get(c.body, "sentiment_score", NULL),
     raw_response |-> c]

\* Mutant: the DO UPDATE SET list takes every column from the incoming row.
MergeClassification_Replace(old, new, clock) == new

\* ON CONFLICT (post_id, model_version) DO UPDATE SET ...
MergeClassification(old, new, clock) ==
    [old EXCEPT !.confidence = new.confidence,
                !.processing_ms = new.processing_ms,
                !.classified_at = clock]

SameKey(a, b) == a.post_id = b.post_id /\ a.model_version = b.model_version

\* Mutant: a plain INSERT into a table without the unique index.
UpsertClassification_InsertOnly(tbl, new, clock) == Append(tbl, new)

\* INSERT INTO post_classifications ... ON CONFLICT ... for one row.
UpsertClassification(tbl, new, clock) ==
    IF \E i \in 1..Len(tbl) : SameKey(tbl[i], new)
    THEN LET i == CHOOSE k \in 1..Len(tbl) : SameKey(tbl[k], new)
         IN [tbl EXCEPT ![i] = MergeClassification(tbl[i], new, clock)]
    ELSE Append(tbl, new)

\* Mutant: the UPDATE without its WHERE.
MarkProcessed_NoWhere(tbl, post_id, clock) ==
    [i \in 1..Len(tbl) |->
        [tbl[i] EXCEPT !.processed_at = Some(clock), !.classification_version = 1]]

\* UPDATE posts SET processed_at = NOW(), classification_version = 1 WHERE id = %s
MarkProcessed(tbl, post_id, clock) ==
    [i \in 1..Len(tbl) |->
        IF tbl[i].id = post_id
        THEN [tbl[i] EXCEPT !.processed_at = Some(clock), !.classification_version = 1]
        ELSE tbl[i]]

NoResult == [classification |-> NULL, error |-> NULL]

\* process_batch_async finds nothing to do and returns 0.
batch_empty(r) ==
    /\ r \in runs
    /\ pc[r] = "idle"
    /\ get_unprocessed_posts(posts, batch_size) = {<<>>}
    /\ batch' = [batch EXCEPT ![r] = <<>>]
    /\ task' = [task EXCEPT ![r] = <<>>]
    /\ returned' = [returned EXCEPT ![r] = Some(0)]
    /\ UNCHANGED <<now, source, dbVars, syncVars, cfgVars, call, profVars, shutdown,
                   pc, semaphore, saveIdx, processed, errors>>

\* process_batch_async selects its posts and creates one task per post
\* (lines 265-281).
batch_start(r) ==
    /\ r \in runs
    /\ pc[r] = "idle"
    /\ \E sel \in get_unprocessed_posts(posts, batch_size) :
          /\ sel # <<>>
          /\ batch' = [batch EXCEPT ![r] = sel]
          /\ task' = [task EXCEPT ![r] =
                [i \in 1..Len(sel) |-> [st |-> "pending", result |-> NoResult]]]
    /\ semaphore' = [semaphore EXCEPT ![r] = MAX_CONCURRENT]
    /\ pc' = [pc EXCEPT ![r] = "gather"]
    /\ UNCHANGED <<now, source, dbVars, syncVars, cfgVars, call, profVars, shutdown,
                   saveIdx, processed, errors, returned>>

\* Mutant: the tasks do not wait for the semaphore.
SemaphoreFree_Always(r) == TRUE

\* asyncio.Semaphore.acquire does not block.
SemaphoreFree(r) == semaphore[r] > 0

\* The next task in creation order enters `async with semaphore`.
task_acquire(r) ==
    /\ r \in runs
    /\ pc[r] = "gather"
    /\ SemaphoreFree(r)
    /\ \E i \in 1..Len(batch[r]) :
          /\ task[r][i].st = "pending"
          /\ \A j \in 1..(i - 1) : task[r][j].st # "pending"
          /\ task' = [task EXCEPT ![r][i].st = "inflight"]
    /\ semaphore' = [semaphore EXCEPT ![r] = @ - 1]
    /\ UNCHANGED <<now, source, dbVars, syncVars, cfgVars, call, profVars, shutdown,
                   pc, batch, saveIdx, processed, errors, returned>>

\* A call ends, the task leaves `async with semaphore` with its tuple.
task_return(r) ==
    /\ r \in runs
    /\ pc[r] = "gather"
    /\ \E i \in 1..Len(batch[r]), outcome \in ClassifierOutcomes :
          /\ task[r][i].st = "inflight"
          /\ task' = [task EXCEPT ![r][i].st = "done",
                        ![r][i].result = ClassifyResult(outcome)]
    /\ semaphore' = [semaphore EXCEPT ![r] = @ + 1]
    /\ UNCHANGED <<now, source, dbVars, syncVars, cfgVars, call, profVars, shutdown,
                   pc, batch, saveIdx, processed, errors, returned>>

\* Mutant: the wait returns with the first task that has returned.
Gathered_FirstCompleted(r) == \E i \in 1..Len(batch[r]) : task[r][i].st = "done"

\* await asyncio.gather(*tasks) returns once every task has returned.
Gathered(r) == \A i \in 1..Len(batch[r]) : task[r][i].st = "done"

gather_done(r) ==
    /\ r \in runs
    /\ pc[r] = "gather"
    /\ Gathered(r)
    /\ pc' = [pc EXCEPT ![r] = "save"]
    /\ saveIdx' = [saveIdx EXCEPT ![r] = 1]
    /\ processed' = [processed EXCEPT ![r] = 0]
    /\ errors' = [errors EXCEPT ![r] = 0]
    /\ UNCHANGED <<now, source, dbVars, syncVars, cfgVars, call, profVars, shutdown,
                   batch, task, semaphore, returned>>

\* save_classification: both statements commit together.
save_classification(post_id, c) ==
    /\ post_classifications' =
          UpsertClassification(post_classifications, ClassificationRow(post_id, c, now), now)
    /\ posts' = MarkProcessed(posts, post_id, now)

\* `if classification:` of the loop over results.
Truthy(classification) == ~IsNull(classification)

\* One turn of the loop over results (lines 287-292).
save_next(r) ==
    /\ r \in runs
    /\ pc[r] = "save"
    /\ saveIdx[r] <= Len(batch[r])
    /\ IF Truthy(task[r][saveIdx[r]].result.classification)
       THEN /\ save_classification(batch[r][saveIdx[r]],
                                   Val(task[r][saveIdx[r]].result.classification))
            /\ processed' = [processed EXCEPT ![r] = @ + 1]
            /\ UNCHANGED errors
       ELSE /\ errors' = [errors EXCEPT ![r] = @ + 1]
            /\ UNCHANGED <<posts, post_classifications, processed>>
    /\ saveIdx' = [saveIdx EXCEPT ![r] = @ + 1]
    /\ UNCHANGED <<now, source, sync_log, syncVars, cfgVars, call, profVars, shutdown,
                   pc, batch, task, semaphore, returned>>

\* return processed; main_continuous then calls process_batch_async again.
batch_return(r) ==
    /\ r \in runs
    /\ pc[r] = "save"
    /\ saveIdx[r] > Len(batch[r])
    /\ returned' = [returned EXCEPT ![r] = Some(processed[r])]
    /\ pc' = [pc EXCEPT ![r] = "idle"]
    /\ UNCHANGED <<now, source, dbVars, syncVars, cfgVars, call, profVars, shutdown,
                   batch, task, semaphore, saveIdx, processed, errors>>

\* main_continuous awaits process_batch_async without a try: an exception
\* of a cycle leaves `while True`, asyncio.run and the process.
LoopAfterException(position) == "ended"

\* get_unprocessed_posts raises (the database cannot be reached).
batch_select_raise(r) ==
    /\ r \in runs
    /\ pc[r] = "idle"
    /\ pc' = [pc EXCEPT ![r] = LoopAfterException(pc[r])]
    /\ UNCHANGED <<now, source, dbVars, syncVars, cfgVars, call, profVars, shutdown,
                   batch, task, semaphore, saveIdx, processed, errors, returned>>

\* save_classification raises in the loop over results: what it executed is
\* rolled back, the rest of the results is not saved.
save_raise(r) ==
    /\ r \in runs
    /\ pc[r] = "save"
    /\ saveIdx[r] <= Len(batch[r])
    /\ Truthy(task[r][saveIdx[r]].result.classification)
    /\ pc' = [pc EXCEPT ![r] = LoopAfterException(pc[r])]
    /\ UNCHANGED <<now, source, dbVars, syncVars, cfgVars, call, profVars, shutdown,
                   batch, task, semaphore, saveIdx, processed, errors, returned>>

\* Somebody asks the processes to stop.  Neither loop reads the request.
request_shutdown ==
    /\ ~shutdown
    /\ shutdown' = TRUE
    /\ UNCHANGED <<now, source, dbVars, syncVars, cfgVars, call, profVars, runVars>>

\* ===================================================================
\* build_profiles.py
\* ===================================================================

SetMin(S) == CHOOSE x \in S : \A y \in S : x <= y

\* posts p JOIN post_classifications pc ON p.id = pc.post_id, for one author:
\* one joined row per classification row.
JoinRows(a) ==
    {k \in 1..Len(post_classifications) :
        posts[post_classifications[k].post_id].author_did = a}

CreatedAt(k) == posts[post_classifications[k].post_id].post_created_at

\* One row of get_users_with_posts: the aggregates of an author's group.
\* MAX(author_handle) of a group is one of the handles of the group.
UserRow(a) ==
    [author_did |-> a,
     author_handle |->
        CHOOSE h \in {posts[post_classifications[k].post_id].author_handle :
                         k \in JoinRows(a)} : TRUE,
     post_count |-> Cardinality(JoinRows(a)),
     first_post |-> SetMin({CreatedAt(k) : k \in JoinRows(a)}),
     last_post |-> SetMax({CreatedAt(k) : k \in JoinRows(a)})]

\* HAVING COUNT(1) >= %s
Having(count, min) == count >= min

\* get_users_with_posts: GROUP BY author_did HAVING ... ORDER BY COUNT(1) DESC.
\* Groups of equal count come in any order.
get_users_with_posts(min) ==
    LET G == {UserRow(posts[post_classifications[k].post_id].author_did) :
                 k \in 1..Len(post_classifications)}
        U == {u \in G : Having(u.post_count, min)}
    IN {s \in [1..Cardinality(U) -> U] :
           /\ \A i, j \in 1..Cardinality(U) : i # j => s[i] # s[j]
           /\ \A i, j \in 1..Cardinality(U) : i < j => s[i].post_count >= s[j].post_count}

\* get_user_classifications: the author's joined rows ORDER BY
\* post_created_at DESC; rows of equal post_created_at come in any order.
get_user_classifications(a) ==
    LET J == JoinRows(a) IN
    {[i \in 1..Cardinality(J) |-> post_classifications[s[i]]] :
        s \in {t \in [1..Cardinality(J) -> J] :
                  /\ \A i, j \in 1..Cardinality(J) : i # j => t[i] # t[j]
                  /\ \A i, j \in 1..Cardinality(J) :
                        i < j => CreatedAt(t[i]) >= CreatedAt(t[j])}}

\* [i for i in items if i and i != 'unknown']
Known(items) ==
    SelectSeq(items, LAMBDA i : ~IsNull(i) /\ Val(i) # "" /\ Val(i) # "unknown")

Count(items, v) == Cardinality({j \in 1..Len(items) : items[j] = v})

FirstIndex(items, v) ==
    CHOOSE j \in 1..Len(items) : items[j] = v /\ \A k \in 1..(j - 1) : items[k] # v

\* Counter(items).most_common(): the distinct items by count, the larger
\* first; items of equal count in the order of their first occurrence.
Ranked(items) ==
    LET D == Range(items) IN
    CHOOSE s \in [1..Cardinality(D) -> D] :
        /\ \A i, j \in 1..Cardinality(D) : i # j => s[i] # s[j]
        /\ \A i, j \in 1..Cardinality(D) : i < j =>
              \/ Count(items, s[i]) > Count(items, s[j])
              \/ /\ Count(items, s[i]) = Count(items, s[j])
                 /\ FirstIndex(items, s[i]) < FirstIndex(items, s[j])

\* most_common(items): default 'unknown'.
most_common(items) ==
    IF Known(items) = <<>> THEN "unknown" ELSE Val(Ranked(Known(items))[1])

\* len(set(consumer_types)) > 1
SecondaryGuard(consumer_types) == Cardinality(Range(consumer_types)) > 1

\* Counter(...).most_common(2)[1][0] raises IndexError when fewer than two
\* distinct values are left after the filter.
SecondaryRaises(consumer_types) ==
    SecondaryGuard(consumer_types) /\ Len(Ranked(Known(consumer_types))) < 2

secondary_consumer_type(consumer_types) ==
    IF SecondaryGuard(consumer_types)
    THEN Ranked(Known(consumer_types))[2]
    ELSE NULL

\* (last_post - first_post).days: whole days of the difference, rounded down.
SpanDays(first_post, last_post) == (last_post - first_post) \div 2

\* (post_count / days) * 7 >= num / den, for days # 0.
PerWeekAtLeast(post_count, days, num, den) ==
    IF days > 0 THEN post_count * 7 * den >= num * days
    ELSE post_count * 7 * den <= num * days

\* Mutant: the span counts the day of the last post too.
calculate_posting_frequency_Inclusive(first_post, last_post, post_count) ==
    IF IsNull(first_post) \/ IsNull(last_post) THEN "unknown"
    ELSE LET days == SpanDays(Val(first_post), Val(last_post)) + 1 IN
         CASE PerWeekAtLeast(post_count, days, 7, 1) -> "daily"
           [] PerWeekAtLeast(post_count, days, 3, 1) -> "several_weekly"
           [] PerWeekAtLeast(post_count, days, 1, 1) -> "weekly"
           [] PerWeekAtLeast(post_count, days, 1, 4) -> "monthly"
           [] OTHER -> "occasional"

calculate_posting_frequency(first_post, last_post, post_count) ==
    IF IsNull(first_post) \/ IsNull(last_post) THEN "unknown"
    ELSE LET days == SpanDays(Val(first_post), Val(last_post)) IN
         IF days = 0 THEN "burst"
         ELSE CASE PerWeekAtLeast(post_count, days, 7, 1) -> "daily"
                [] PerWeekAtLeast(post_count, days, 3, 1) -> "several_weekly"
                [] PerWeekAtLeast(post_count, days, 1, 1) -> "weekly"
                [] PerWeekAtLeast(post_count, days, 1, 4) -> "monthly"
                [] OTHER -> "occasional"

RECURSIVE Sum(_)
Sum(xs) == IF xs = <<>> THEN 0 ELSE Head(xs) + Sum(Tail(xs))

\* int(n / d) for d > 0: truncation towards zero.
Trunc(n, d) == IF n >= 0 THEN n \div d ELSE -((-n) \div d)

\* [c[col] for c in classifications if c[col] is not None]
NotNone(classifications, col) ==
    LET present == SelectSeq(classifications, LAMBDA c : ~IsNull(c[col]))
    IN [i \in 1..Len(present) |-> Val(present[i][col])]

\* min(100, int(avg_purchase_intent * 0.5 + high_intent_count * 10 + post_count * 2))
\* with avg_purchase_intent = sum / len, or 0 without values.
dispensary_score(user, classifications) ==
    LET pi == NotNone(classifications, "purchase_intent")
        high == Cardinality({j \in 1..Len(pi) : pi[j] >= 50})
        rest == high * 10 + user.post_count * 2
    IN Min(100, IF pi = <<>> THEN rest
                ELSE Trunc(Sum(pi) + 2 * Len(pi) * rest, 2 * Len(pi)))

\* flatten_arrays followed by the count of the calming effects.
CalmEffects(classifications) ==
    LET lists == NotNone(classifications, "effects_mentioned")
    IN Sum([i \in 1..Len(lists) |->
             Cardinality({j \in 1..Len(lists[i]) :
                 lists[i][j] \in {"relaxed", "calm", "sleep", "pain_relief"}})])

Column(classifications, col) == [i \in 1..Len(classifications) |-> classifications[i][col]]

wellness_score(user, classifications) ==
    Min(100,
        (IF most_common(Column(classifications, "consumer_type")) \in {"wellness", "medical"}
         THEN 50 ELSE 0)
        + CalmEffects(classifications) * 10)

premium_score(user, classifications) ==
    Min(100,
        (IF most_common(Column(classifications, "consumer_type")) = "connoisseur"
         THEN 50 ELSE 0)
        + (IF most_common(Column(classifications, "experience_level")) \in {"expert", "daily"}
           THEN 30 ELSE 0)
        + user.post_count)

\* build_user_profile raises (IndexError in secondary_consumer_type).
BuildRaises(user, classifications) ==
    SecondaryRaises(Column(classifications, "consumer_type"))

\* The dict build_user_profile returns.
build_user_profile(user, classifications) ==
    [author_did |-> user.author_did,
     author_handle |-> user.author_handle,
     first_seen_at |-> user.first_post,
     last_seen_at |-> user.last_post,
     posts_analyzed |-> user.post_count,
     primary_consumer_type |-> most_common(Column(classifications, "consumer_type")),
     secondary_consumer_type |-> secondary_consumer_type(Column(classifications, "consumer_type")),
     experience_level |-> most_common(Column(classifications, "experience_level")),
     dispensary_target_score |-> dispensary_score(user, classifications),
     wellness_brand_target_score |-> wellness_score(user, classifications),
     premium_product_target_score |-> premium_score(user, classifications),
     accessory_target_score |-> Min(100, user.post_count * 3)]

\* The row of the INSERT: the profile and profile_updated_at = NOW().
ProfileRow(profile, clock) ==
    [author_did |-> profile.author_did,
     author_handle |-> profile.author_handle,
     first_seen_at |-> profile.first_seen_at,
     last_seen_at |-> profile.last_seen_at,
     posts_analyzed |-> profile.posts_analyzed,
     primary_consumer_type |-> profile.primary_consumer_type,
     secondary_consumer_type |-> profile.secondary_consumer_type,
     experience_level |-> profile.experience_level,
     dispensary_target_score |-> profile.dispensary_target_score,
     wellness_brand_target_score |-> profile.wellness_brand_target_score,
     premium_product_target_score |-> profile.premium_product_target_score,
     accessory_target_score |-> profile.accessory_target_score,
     profile_updated_at |-> clock]

\* ON CONFLICT (author_did) DO UPDATE SET ...: every column of the INSERT
\* but author_did and first_seen_at.
MergeProfile(old, new) ==
    [new EXCEPT !.author_did = old.author_did, !.first_seen_at = old.first_seen_at]

\* save_user_profile
save_user_profile(tbl, profile, clock) ==
    IF \E i \in 1..Len(tbl) : tbl[i].author_did = profile.author_did
    THEN LET i == CHOOSE k \in 1..Len(tbl) : tbl[k].author_did = profile.author_did
         IN [tbl EXCEPT ![i] = MergeProfile(tbl[i], ProfileRow(profile, clock))]
    ELSE Append(tbl, ProfileRow(profile, clock))

\* Mutant: the exception of one author leaves the loop.
AfterException_Propagates(i, n) == n + 1

\* `except Exception` inside the for loop: log and go on with the next user.
AfterException(i, n) == i + 1

\* The values of --min-posts the runs are started with.
MinPostsInputs == {1, 2}

\* build_all_profiles: users = get_users_with_posts(min_posts)
profiles_start ==
    /\ pf_pc = "idle"
    /\ \E m \in MinPostsInputs :
          /\ min_posts' = m
          /\ users' \in get_users_with_posts(m)
    /\ pf_pc' = "loop"
    /\ pf_i' = 1
    /\ pf_errors' = {}
    /\ UNCHANGED <<now, source, dbVars, syncVars, cfgVars, call, runVars, user_profiles, shutdown>>

\* One turn of the for loop whose body raises: the connection of the load
\* or of the save fails (nothing is written, the save rolls back), or
\* build_user_profile raises.
profile_raise ==
    /\ pf_pc = "loop"
    /\ pf_i <= Len(users)
    /\ \E e \in {"OperationalError", "IndexError"} :
          /\ e = "IndexError" =>
                \E classifications \in get_user_classifications(users[pf_i].author_did) :
                    BuildRaises(users[pf_i], classifications)
          /\ pf_errors' = pf_errors \cup
                {[author_did |-> users[pf_i].author_did, error |-> e]}
    /\ pf_i' = AfterException(pf_i, Len(users))
    /\ UNCHANGED <<now, source, dbVars, syncVars, cfgVars, call, runVars, shutdown,
                   user_profiles, min_posts, users, pf_pc>>

\* One turn of the for loop that loads, builds and saves a profile.
profile_save ==
    /\ pf_pc = "loop"
    /\ pf_i <= Len(users)
    /\ \E classifications \in get_user_classifications(users[pf_i].author_did) :
          /\ ~BuildRaises(users[pf_i], classifications)
          /\ user_profiles' =
                save_user_profile(user_profiles,
                                  build_user_profile(users[pf_i], classifications), now)
    /\ pf_i' = pf_i + 1
    /\ UNCHANGED <<now, source, dbVars, syncVars, cfgVars, call, runVars, shutdown,
                   min_posts, users, pf_pc, pf_errors>>

\* The loop is over: build_all_profiles returns.
profiles_done ==
    /\ pf_pc = "loop"
    /\ pf_i > Len(users)
    /\ pf_pc' = "done"
    /\ UNCHANGED <<now, source, dbVars, syncVars, cfgVars, call, runVars, shutdown,
                   user_profiles, min_posts, users, pf_i, pf_errors>>

\* ===================================================================
\* specifications
\* ===================================================================

RunIds == {1, 2}

\* No function was called on its own.
NoCall == [fn |-> "none"]

InitDb ==
    /\ now = 1
    /\ source = {}
    /\ posts = <<>>
    /\ post_classifications = <<>>
    /\ sync_log = <<>>
    /\ sync_outcome = "none"
    /\ synced_source = NULL
    /\ sync_calls = 0
    /\ scp_returncode = 0
    /\ LOCAL_DB_COPY = NULL
    /\ sync_loop = "running"

InitRuns ==
    /\ user_profiles = <<>>
    /\ min_posts = 1
    /\ users = <<>>
    /\ pf_pc = "idle"
    /\ pf_i = 0
    /\ pf_errors = {}
    /\ shutdown = FALSE
    /\ call = NoCall
    /\ pc = [r \in RunIds |-> "idle"]
    /\ batch = [r \in RunIds |-> <<>>]
    /\ task = [r \in RunIds |-> <<>>]
    /\ semaphore = [r \in RunIds |-> 0]
    /\ saveIdx = [r \in RunIds |-> 0]
    /\ processed = [r \in RunIds |-> 0]
    /\ errors = [r \in RunIds |-> 0]
    /\ returned = [r \in RunIds |-> NULL]

\* sync alone, over every timestamp shape.
InitSync ==
    /\ InitDb
    /\ InitRuns
    /\ indexer = [formats |-> Formats, texts |-> {Some("post")},
                  created |-> {[t |-> 1, fmt |-> "isoz"]},
                  handles |-> {"h"}, media |-> {PlainMedia}, recaptures |-> {}]
    /\ MAX_CONCURRENT = 1
    /\ batch_size = 1
    /\ runs = {}

NextSync == Tick \/ SourceInsert \/ sync_posts

SpecSync == InitSync /\ [][NextSync]_vars

\* sync over a legacy table whose rows are written again: as they were, or
\* with another handle, without text and without media.
InitResync ==
    /\ InitDb
    /\ InitRuns
    /\ indexer = [formats |-> {"isoz", "sqlite"}, texts |-> {Some("post")},
                  created |-> {[t |-> 1, fmt |-> "isoz"]},
                  handles |-> {"h"}, media |-> {RichMedia},
                  recaptures |->
                      {[author_handle |-> "h", text |-> Some("post"), media |-> RichMedia],
                       [author_handle |-> "h2", text |-> NULL, media |-> PlainMedia]}]
    /\ MAX_CONCURRENT = 1
    /\ batch_size = 1
    /\ runs = {}

NextResync == Tick \/ SourceInsert \/ SourceReindex \/ sync_posts

SpecResync == InitResync /\ [][NextResync]_vars

\* The functions of the pipeline called on their own, over the arguments
\* the pipeline can hand them.
PostTimes == {NULL} \cup {Some(t) : t \in 0..(2 * MaxSpanDays + 1)}

\* calculate_posting_frequency(first_post, last_post, post_count) with
\* first_post = MIN(post_created_at) and last_post = MAX(post_created_at).
call_posting_frequency ==
    /\ call = NoCall
    /\ \E first_post \in {NULL, Some(0)}, last_post \in PostTimes, post_count \in 1..MaxPostCount :
          call' = [fn |-> "calculate_posting_frequency",
                   args |-> <<first_post, last_post, post_count>>,
                   result |-> calculate_posting_frequency(first_post, last_post, post_count)]
    /\ UNCHANGED <<now, source, dbVars, syncVars, cfgVars, profVars, shutdown, runVars>>

\* The purchase_intent column of a classification row: null, or the number
\* the classifier answered (stored as it came).
PurchaseIntents == {NULL, Some(0), Some(60), Some(80), Some(-150), Some(150)}

ClassificationLists ==
    UNION {[1..n -> [purchase_intent : PurchaseIntents]] : n \in 1..MaxClassRows}

\* The dispensary score of build_user_profile for an author's joined rows;
\* post_count is the number of those rows.
call_dispensary_score ==
    /\ call = NoCall
    /\ \E classifications \in ClassificationLists :
          LET user == [post_count |-> Len(classifications)] IN
          call' = [fn |-> "dispensary_score",
                   args |-> <<user, classifications>>,
                   result |-> dispensary_score(user, classifications)]
    /\ UNCHANGED <<now, source, dbVars, syncVars, cfgVars, profVars, shutdown, runVars>>

\* classify_post_async from the end of the API call to its return.
call_classify ==
    /\ call = NoCall
    /\ \E outcome \in ClassifierOutcomes :
          call' = [fn |-> "classify_post_async",
                   args |-> <<outcome>>,
                   result |-> ClassifyResult(outcome)]
    /\ UNCHANGED <<now, source, dbVars, syncVars, cfgVars, profVars, shutdown, runVars>>

\* The caller has taken the result.
call_done ==
    /\ call # NoCall
    /\ call' = NoCall
    /\ UNCHANGED <<now, source, dbVars, syncVars, cfgVars, profVars, shutdown, runVars>>

InitCalls ==
    /\ InitDb
    /\ InitRuns
    /\ indexer = [formats |-> {"isoz"}, texts |-> {Some("post")},
                  created |-> {[t |-> 1, fmt |-> "isoz"]},
                  handles |-> {"h"}, media |-> {PlainMedia}, recaptures |-> {}]
    /\ MAX_CONCURRENT = 1
    /\ batch_size = 1
    /\ runs = {}

NextCalls == call_posting_frequency \/ call_dispensary_score \/ call_classify \/ call_done

SpecCalls == InitCalls /\ [][NextCalls]_vars

\* What the indexer captured before the classifier starts: posts with or
\* without text, created at either time.
Captured(u, c, x) ==
    SourceRow(u, "h", [t |-> 1, fmt |-> "isoz"], [t |-> c, fmt |-> "isoz"], x, PlainMedia)

CapturedSources ==
    UNION {{{Captured(Uris[i], f[i][1], f[i][2]) : i \in 1..n} :
               f \in [1..n -> {1, 2} \X {Some("post"), Some("")}]} :
           n \in 1..Min(MaxSourceRows, Len(Uris))}

\* The rows of a snapshot in the order of their uris.
RECURSIVE InUriOrder(_, _)
InUriOrder(S, i) ==
    IF i > Len(Uris) THEN <<>>
    ELSE (IF \E r \in S : r.uri = Uris[i]
          THEN <<CHOOSE r \in S : r.uri = Uris[i]>> ELSE <<>>) \o InUriOrder(S, i + 1)

\* The state one full sync run leaves: the posts table holds the snapshot.
InitSynced ==
    /\ now = 1
    /\ posts = UpsertPosts(<<>>, InUriOrder(source, 1), 1)
    /\ post_classifications = <<>>
    /\ sync_log = <<SyncLogRow(Len(posts), Some(1), 1)>>
    /\ sync_outcome = "returned"
    /\ synced_source = Some(source)
    /\ sync_calls = 1
    /\ scp_returncode = 0
    /\ LOCAL_DB_COPY = NULL
    /\ sync_loop = "running"
    /\ InitRuns
    /\ indexer = [formats |-> {"isoz"}, texts |-> {Some("post"), Some("")},
                  created |-> {[t |-> 1, fmt |-> "isoz"], [t |-> 2, fmt |-> "isoz"]},
                  handles |-> {"h"}, media |-> {PlainMedia}, recaptures |-> {}]
    /\ MAX_CONCURRENT \in 1..MaxWorkers
    /\ batch_size \in 1..MaxBatch

NextEngine ==
    \/ \E r \in RunIds : batch_empty(r)
    \/ \E r \in RunIds : batch_start(r)
    \/ \E r \in RunIds : task_acquire(r)
    \/ \E r \in RunIds : task_return(r)
    \/ \E r \in RunIds : gather_done(r)
    \/ \E r \in RunIds : save_next(r)
    \/ \E r \in RunIds : batch_return(r)

\* One classifier process (main_continuous) over any captured table.
Init == source \in CapturedSources /\ InitSynced /\ runs = {1}
Next == NextEngine
Spec == Init /\ [][Next]_vars

\* Two classifier processes started over the same table of two posts.
InitOverlap ==
    /\ source \in {{Captured(Uris[1], 1, Some("post")), Captured(Uris[2], c, Some("post"))} :
                      c \in {1, 2}}
    /\ InitSynced
    /\ runs = RunIds
SpecOverlap == InitOverlap /\ [][NextEngine]_vars

\* A post the API refuses on every attempt (its content is rejected), and
\* what a call on a post can end in when every other call is answered with
\* a JSON object.
Refused(post) == post.text_content = Some("refused")

OutcomesOf(post) ==
    IF Refused(post) THEN {o \in ClassifierOutcomes : o.kind = "error"}
    ELSE {o \in ClassifierOutcomes : o.kind = "json"}

\* task_return when the outcome of a call depends on the post alone.
task_return_of_post(r) ==
    /\ r \in runs
    /\ pc[r] = "gather"
    /\ \E i \in 1..Len(batch[r]) :
       \E outcome \in OutcomesOf(posts[batch[r][i]]) :
          /\ task[r][i].st = "inflight"
          /\ task' = [task EXCEPT ![r][i].st = "done",
                        ![r][i].result = ClassifyResult(outcome)]
    /\ semaphore' = [semaphore EXCEPT ![r] = @ + 1]
    /\ UNCHANGED <<now, source, dbVars, syncVars, cfgVars, call, profVars, shutdown,
                   pc, batch, saveIdx, processed, errors, returned>>

\* classifier_parallel.py --continuous alone over a table of posts of
\* different post_created_at of which some are refused on every attempt: the
\* event loop runs every coroutine that can run, and main_continuous starts
\* the next cycle when one is over.
RefusedSources ==
    UNION {{{Captured(Uris[i], f[i][1], f[i][2]) : i \in 1..n} :
               f \in {g \in [1..n -> (1..MaxSourceRows) \X {Some("post"), Some("refused")}] :
                         \A i, j \in 1..n : i # j => g[i][1] # g[j][1]}} :
           n \in 1..Min(MaxSourceRows, Len(Uris))}

InitFair == source \in RefusedSources /\ InitSynced /\ runs = {1}

NextFair ==
    \/ \E r \in RunIds : batch_empty(r)
    \/ \E r \in RunIds : batch_start(r)
    \/ \E r \in RunIds : task_acquire(r)
    \/ \E r \in RunIds : task_return_of_post(r)
    \/ \E r \in RunIds : gather_done(r)
    \/ \E r \in RunIds : save_next(r)
    \/ \E r \in RunIds : batch_return(r)

SpecFair == InitFair /\ [][NextFair]_vars /\ WF_vars(NextFair)

\* build_all_profiles has returned and the process ends.
profiles_exit ==
    /\ pf_pc = "done"
    /\ pf_pc' = "idle"
    /\ min_posts' = 1
    /\ users' = <<>>
    /\ pf_i' = 0
    /\ pf_errors' = {}
    /\ UNCHANGED <<now, source, dbVars, syncVars, cfgVars, call, runVars, shutdown, user_profiles>>

\* sync.py --continuous and classifier_parallel.py --continuous side by
\* side, with a database that can fail under the classifier.
InitLoops ==
    /\ InitDb
    /\ InitRuns
    /\ indexer = [formats |-> {"isoz", "sqlite"}, texts |-> {Some("post")},
                  created |-> {[t |-> 1, fmt |-> "isoz"]},
                  handles |-> {"h"}, media |-> {PlainMedia}, recaptures |-> {}]
    /\ MAX_CONCURRENT = 1
    /\ batch_size = 1
    /\ runs = {1}

NextLoops ==
    \/ Tick
    \/ SourceInsert
    \/ sync_posts
    \/ NextEngine
    \/ \E r \in RunIds : batch_select_raise(r)
    \/ \E r \in RunIds : save_raise(r)
    \/ request_shutdown

SpecLoops == InitLoops /\ [][NextLoops]_vars

\* The aggregation over a table of three posts of two authors, the older
\* post of did:a captured last.  Classifier processes save classifications
\* between the aggregation runs; a release of the classifier with another
\* MODEL_VERSION writes rows under its own version.
EARLIER_MODEL_VERSION == "deepseek-chat-20251215"

ModelVersions == {MODEL_VERSION, EARLIER_MODEL_VERSION}

ProfilePosts ==
    {Captured(Uris[1], 2, Some("post")), Captured(Uris[2], 1, Some("post")),
     Captured(Uris[3], 1, Some("post"))}

\* The JSON objects the classifier answered with.
ProfileBodies ==
    {[consumer_type |-> "wellness", purchase_intent |-> 60,
      effects_mentioned |-> <<"relaxed">>],
     [consumer_type |-> "unknown", purchase_intent |-> -150],
     [consumer_type |-> "connoisseur", experience_level |-> "expert",
      purchase_intent |-> 150],
     [confidence |-> 95]}

\* The order in which classifications are saved: the posts newest first
\* (the order of their ids here), the earlier release before the current one.
SavedBefore(row, p, v) ==
    \/ row.post_id < p
    \/ row.post_id = p /\ row.model_version = EARLIER_MODEL_VERSION /\ v = MODEL_VERSION

\* A classifier process saves the classification of a post, while no
\* aggregation run is under way.
classifier_saves ==
    /\ pf_pc = "idle"
    /\ Len(post_classifications) < MaxClassRows
    /\ \E p \in 1..Len(posts), b \in ProfileBodies, v \in ModelVersions :
          /\ \A k \in 1..Len(post_classifications) :
                SavedBefore(post_classifications[k], p, v)
          /\ save_classification(p, [body |-> b, processing_ms |-> 120, model_version |-> v])
    /\ UNCHANGED <<now, source, sync_log, syncVars, cfgVars, call, runVars, profVars, shutdown>>

InitProfiles ==
    /\ source = ProfilePosts
    /\ now = 1
    /\ posts = UpsertPosts(<<>>, InUriOrder(source, 1), 1)
    /\ post_classifications = <<>>
    /\ sync_log = <<SyncLogRow(Len(posts), Some(1), 1)>>
    /\ sync_outcome = "returned"
    /\ synced_source = Some(source)
    /\ sync_calls = 1
    /\ scp_returncode = 0
    /\ LOCAL_DB_COPY = NULL
    /\ sync_loop = "running"
    /\ InitRuns
    /\ indexer = [formats |-> {"isoz"}, texts |-> {Some("post")},
                  created |-> {[t |-> 1, fmt |-> "isoz"], [t |-> 2, fmt |-> "isoz"]},
                  handles |-> {"h"}, media |-> {PlainMedia}, recaptures |-> {}]
    /\ MAX_CONCURRENT = 1
    /\ batch_size = 1
    /\ runs = {}

NextProfiles ==
    \/ classifier_saves
    \/ profiles_start
    \/ profile_raise
    \/ profile_save
    \/ profiles_done
    \/ profiles_exit

SpecProfiles == InitProfiles /\ [][NextProfiles]_vars

\* sync.py, classifier_parallel.py and build_profiles.py side by side, some
\* time after the first sync run and the first classifier run: the posts
\* table holds the two posts of the legacy table (captured with indexed_at
\* in the SQLite form), post 1 is classified, and the indexer writes posts
\* again, with their media, in either form.  One aggregation run; the clock
\* moves with the sync runs only.
FirstAnswer == CHOOSE o \in ClassifierOutcomes : o.kind = "json" /\ o.elapsed_ms = 120

InitPipeline ==
    /\ source = {SourceRow(Uris[i], "h", [t |-> 1, fmt |-> "sqlite"],
                           [t |-> i, fmt |-> "isoz"], Some("post"), PlainMedia) : i \in {1, 2}}
    /\ now = 2
    /\ posts = MarkProcessed(UpsertPosts(<<>>, InUriOrder(source, 1), 1), 1, 1)
    /\ post_classifications =
          UpsertClassification(<<>>,
              ClassificationRow(1, Val(ClassifyResult(FirstAnswer).classification), 1), 1)
    /\ sync_log = <<SyncLogRow(Len(posts), Some(1), 1)>>
    /\ sync_outcome = "returned"
    /\ synced_source = Some(source)
    /\ sync_calls = 1
    /\ scp_returncode = 0
    /\ LOCAL_DB_COPY = NULL
    /\ sync_loop = "running"
    /\ InitRuns
    /\ indexer = [formats |-> {"isoz", "sqlite"}, texts |-> {Some("post")},
                  created |-> {[t |-> 2, fmt |-> "isoz"]},
                  handles |-> {"h"}, media |-> {PlainMedia},
                  recaptures |->
                      {[author_handle |-> "h2", text |-> NULL, media |-> RichMedia]}]
    /\ MAX_CONCURRENT = 1
    /\ batch_size = 1
    /\ runs = {1}

NextPipeline ==
    \/ SourceReindex
    \/ sync_posts
    \/ NextEngine
    \/ \E r \in RunIds : save_raise(r)
    \/ profiles_start
    \/ profile_raise
    \/ profile_save
    \/ profiles_done

SpecPipeline == InitPipeline /\ [][NextPipeline]_vars

\* ===================================================================
\* claims
\* ===================================================================

HasRow(p) == \E k \in 1..Len(post_classifications) : post_classifications[k].post_id = p

\* The tasks of run r's batch whose classifier call failed / succeeded.
Failed(r) == {i \in 1..Len(batch[r]) : ~IsNull(task[r][i].result.error)}
Succeeded(r) == {i \in 1..Len(batch[r]) :
                    task[r][i].st = "done" /\ IsNull(task[r][i].result.error)}

\* Run r has finished a batch and not started the next one.
BatchOver(r) == r \in runs /\ pc[r] = "idle" /\ batch[r] # <<>>

\* Run r starts a batch in this step.
BatchStarts(r) == pc[r] = "idle" /\ pc'[r] = "gather"

\* C1: once a batch is over, every task of it has resolved, the value
\* returned is the number of posts whose call succeeded, exactly those posts
\* have a classification row and a non-null processed_at, and every post
\* whose call failed is unprocessed and has no row.
C1_BatchIsolation ==
    \A r \in RunIds : BatchOver(r) =>
        /\ \A i \in 1..Len(batch[r]) : task[r][i].st = "done"
        /\ returned[r] = Some(Cardinality(Succeeded(r)))
        /\ \A i \in Succeeded(r) :
              HasRow(batch[r][i]) /\ ~IsNull(posts[batch[r][i]].processed_at)
        /\ \A i \in Failed(r) :
              ~HasRow(batch[r][i]) /\ IsNull(posts[batch[r][i]].processed_at)

\* A batch of two posts is over, one call failed, one post was classified.
C1_Witness ==
    /\ BatchOver(1)
    /\ Len(batch[1]) = 2
    /\ Cardinality(Failed(1)) = 1
    /\ returned[1] = Some(1)

\* The posts that come before p in some newest-first order: unprocessed and
\* not older than p.
AheadOf(p) ==
    {e \in Unprocessed(posts) \ {p} :
        posts[e].post_created_at >= posts[p].post_created_at}

\* A post whose call failed stays unprocessed and without a row until the
\* run's next batch starts.
FailedStayUnprocessed ==
    \A r \in RunIds : (r \in runs /\ pc[r] \in {"idle", "save"}) =>
        \A i \in Failed(r) :
            ~HasRow(batch[r][i]) /\ IsNull(posts[batch[r][i]].processed_at)

\* C2 as stated: a post whose call failed keeps processed_at null, gets no
\* row, and the next batch of the run selects it.
C2_FailedSelectedByNextBatch ==
    [][\A r \in RunIds : BatchStarts(r) =>
          \A i \in Failed(r) :
              /\ ~HasRow(batch[r][i])
              /\ IsNull(posts[batch[r][i]].processed_at)
              /\ batch[r][i] \in Range(batch'[r])]_vars

\* C2 amended: a post whose call failed keeps processed_at null and gets no
\* row, and the next batch selects it whenever fewer than batch_size other
\* unprocessed posts have a post_created_at at or after its own.
C2_FailedRetriedWhenNewest ==
    /\ []FailedStayUnprocessed
    /\ [][\A r \in RunIds : BatchStarts(r) =>
             \A i \in Failed(r) :
                 Cardinality(AheadOf(batch[r][i])) < batch_size
                     => batch[r][i] \in Range(batch'[r])]_vars

\* A batch is over in which a call failed on a post that fewer than
\* batch_size unprocessed posts are ahead of, while the next batch cannot
\* take every unprocessed post.
C2_Witness ==
    /\ BatchOver(1)
    /\ \E i \in Failed(1) : Cardinality(AheadOf(batch[1][i])) < batch_size
    /\ Cardinality(Unprocessed(posts)) > batch_size

InFlight(r) == {i \in 1..Len(batch[r]) : task[r][i].st = "inflight"}

\* C3: the calls in flight never outnumber the configured worker count.
C3_AtMostWInFlight ==
    \A r \in RunIds : r \in runs => Cardinality(InFlight(r)) <= MAX_CONCURRENT

\* Every slot is taken and a task waits for one.
C3_Witness ==
    /\ Cardinality(InFlight(1)) = MAX_CONCURRENT
    /\ \E i \in 1..Len(batch[1]) : task[1][i].st = "pending"

\* C4: when a run selects its next batch, every call of the batch before
\* has resolved and every post it classified has its processed_at written.
C4_BatchBarrier ==
    [][\A r \in RunIds : BatchStarts(r) =>
          \A i \in 1..Len(batch[r]) :
              /\ task[r][i].st = "done"
              /\ ~IsNull(task[r][i].result.classification)
                    => ~IsNull(posts[batch[r][i]].processed_at)]_vars

\* A second batch is under way after a batch that classified a post.
C4_Witness ==
    /\ pc[1] = "gather"
    /\ \E p \in 1..Len(posts) : ~IsNull(posts[p].processed_at)

\* C5: no two classification rows have the same (post_id, model_version).
C5_OneRowPerPostAndModel ==
    \A i, j \in 1..Len(post_classifications) :
        i # j => ~SameKey(post_classifications[i], post_classifications[j])

\* Run r has saved the classification of task i of its batch.
Saved(r, i) ==
    /\ pc[r] = "save"
    /\ i < saveIdx[r]
    /\ ~IsNull(task[r][i].result.classification)

\* Both runs selected the same post and both have saved a classification of it.
C5_Witness ==
    \E i \in 1..Len(batch[1]), j \in 1..Len(batch[2]) :
        batch[1][i] = batch[2][j] /\ Saved(1, i) /\ Saved(2, j)

\* The columns of a classification row that are not telemetry.
Semantic(row) ==
    [post_id |-> row.post_id, model_version |-> row.model_version,
     experience_level |-> row.experience_level, consumer_type |-> row.consumer_type,
     purchase_intent |-> row.purchase_intent, effects_mentioned |-> row.effects_mentioned,
     sentiment_score |-> row.sentiment_score, raw_response |-> row.raw_response]

\* C6: no step changes a column of an existing classification row other
\* than confidence, processing_ms and classified_at.
C6_ResaveKeepsSemanticFields ==
    [][\A k \in 1..Len(post_classifications) :
          /\ k <= Len(post_classifications')
          /\ Semantic(post_classifications'[k]) = Semantic(post_classifications[k])]_vars

\* A run saved a classification over the row another classification made:
\* the row carries the telemetry of the later one and the purchase intent of
\* the first.
C6_Witness ==
    \E k \in 1..Len(post_classifications), r \in RunIds :
      \E i \in 1..Len(batch[r]) :
        /\ Saved(r, i)
        /\ batch[r][i] = post_classifications[k].post_id
        /\ post_classifications[k].raw_response # Val(task[r][i].result.classification)
        /\ post_classifications[k].processing_ms
              = Val(task[r][i].result.classification).processing_ms
        /\ post_classifications[k].purchase_intent
              # Get(Val(task[r][i].result.classification).body, "purchase_intent", NULL)

\* Run r saves the classification of the post at saveIdx[r] in this step.
Saves(r) ==
    /\ pc[r] = "save"
    /\ saveIdx[r] <= Len(batch[r])
    /\ saveIdx'[r] = saveIdx[r] + 1
    /\ ~IsNull(task[r][saveIdx[r]].result.classification)

\* C7: saving a classification leaves, in one step, a row for the post, a
\* non-null processed_at, and a classification_version one above the
\* previous one.
C7_SaveIncrementsVersion ==
    [][\A r \in RunIds : Saves(r) =>
          LET p == batch[r][saveIdx[r]] IN
             /\ \E k \in 1..Len(post_classifications') : post_classifications'[k].post_id = p
             /\ ~IsNull(posts'[p].processed_at)
             /\ posts'[p].classification_version = posts[p].classification_version + 1]_vars

InRange(o, lo, hi) == IsNull(o) \/ (Val(o) >= lo /\ Val(o) <= hi)

\* C8: every stored sentiment_score is in [-100,100] and every stored
\* purchase_intent is in [0,100].
C8_StoredScoresInRange ==
    \A k \in 1..Len(post_classifications) :
        /\ InRange(post_classifications[k].sentiment_score, -100, 100)
        /\ InRange(post_classifications[k].purchase_intent, 0, 100)

\* A sync run completes in this step.
SyncCompletes == sync_log' # sync_log

\* C9: a sync run that completes on the snapshot the last completed run
\* read leaves the number of posts and MAX(indexed_at) as they were.
C9_SyncTwiceIdempotent ==
    [][(SyncCompletes /\ synced_source = Some(source)) =>
          /\ Len(posts') = Len(posts)
          /\ WatermarkOf(posts') = WatermarkOf(posts)]_vars

\* Two runs completed on the same source, and the second transferred rows
\* again.
C9_Witness ==
    /\ Len(sync_log) = 2
    /\ sync_log[1].posts_synced = Cardinality(source)
    /\ sync_log[2].posts_synced > 0
    /\ synced_source = Some(source)

\* C10: no two rows of posts have the same uri.
C10_OneRowPerUri ==
    \A i, j \in 1..Len(posts) : i # j => posts[i].uri # posts[j].uri

\* The runs transferred more rows than the table holds: a uri came twice.
C10_Witness ==
    /\ Len(sync_log) = 2
    /\ sync_log[1].posts_synced + sync_log[2].posts_synced > Len(posts)
    /\ Len(posts) = 2

\* A call of sync_posts happens in this step.
SyncCalled == sync_calls' = sync_calls + 1

\* C11: a call of sync_posts either leaves posts and sync_log as they were,
\* or makes every selected row visible in posts together with one new
\* sync_log row that counts them; posts changes in no other way, so the
\* watermark moves only together with the log row.
C11_SyncCommitsAtomically ==
    [][SyncCalled =>
          LET rows == RowsToSync(source, get_last_sync_timestamp) IN
             \/ posts' = posts /\ sync_log' = sync_log
             \/ /\ Len(sync_log') = Len(sync_log) + 1
                /\ sync_log'[Len(sync_log')].posts_synced = Cardinality(rows)
                /\ \A r \in rows : \E i \in 1..Len(posts') : posts'[i].uri = r.uri
                /\ rows = {} => posts' = posts]_vars

\* The last call downloaded the table, selected rows and raised after its
\* upsert, over a table that earlier calls filled.
C11_Witness ==
    /\ Len(posts) > 0
    /\ sync_outcome = "raised"
    /\ scp_returncode = 0
    /\ RowsToSync(source, get_last_sync_timestamp) # {}
    /\ MixedAwareness(RowsToSync(source, get_last_sync_timestamp), now)

\* C12: a call whose download fails raises, leaves posts as it was, and
\* the next call selects with the same watermark.
C12_DownloadFailureKeepsWatermark ==
    [][(SyncCalled /\ scp_returncode' # 0) =>
          /\ sync_outcome' = "raised"
          /\ posts' = posts
          /\ WatermarkOf(posts') = WatermarkOf(posts)
          /\ RowsToSync(source', WatermarkOf(posts'))
                = RowsToSync(source, WatermarkOf(posts))]_vars

\* A download failed after an earlier call filled the table, with new rows
\* waiting in the legacy table.
C12_Witness ==
    /\ scp_returncode # 0
    /\ sync_outcome = "raised"
    /\ Len(posts) > 0
    /\ RowsToSync(source, get_last_sync_timestamp) # {}

\* C20: every call of sync_posts appends exactly one sync_log row, of
\* status success when the call returned and of a failure status when it
\* raised, and leaves the rows that were there as they were.
C20_EveryRunLogged ==
    [][SyncCalled =>
          /\ Len(sync_log') = Len(sync_log) + 1
          /\ SubSeq(sync_log', 1, Len(sync_log)) = sync_log
          /\ (sync_outcome' = "raised") = (sync_log'[Len(sync_log')].status # "success")]_vars

\* The posts of author a that have a classification row.
ClassifiedPosts(a) ==
    {post_classifications[k].post_id : k \in JoinRows(a)}

Authors == {posts[i].author_did : i \in 1..Len(posts)}

HasProfileIn(tbl, a) == \E k \in 1..Len(tbl) : tbl[k].author_did = a

ProfileIn(tbl, a) == tbl[CHOOSE k \in 1..Len(tbl) : tbl[k].author_did = a]

HasProfile(a) == HasProfileIn(user_profiles, a)

ProfileOf(a) == ProfileIn(user_profiles, a)

\* C13: the four targeting scores of every profile row are between 0 and 100.
C13_ScoresWithinRange ==
    \A k \in 1..Len(user_profiles) :
        /\ user_profiles[k].dispensary_target_score \in 0..100
        /\ user_profiles[k].wellness_brand_target_score \in 0..100
        /\ user_profiles[k].premium_product_target_score \in 0..100
        /\ user_profiles[k].accessory_target_score \in 0..100

\* C14: the post_count an aggregation run reads for an author is the number
\* of distinct classified posts of the author, and the profile it writes
\* carries that number as posts_analyzed.
C14_PostsAnalyzedCountsPosts ==
    [][/\ (pf_pc = "idle" /\ pf_pc' = "loop") =>
             \A i \in 1..Len(users') :
                 users'[i].post_count = Cardinality(ClassifiedPosts(users'[i].author_did))
       /\ user_profiles' # user_profiles =>
             /\ HasProfileIn(user_profiles', users[pf_i].author_did)
             /\ ProfileIn(user_profiles', users[pf_i].author_did).posts_analyzed
                   = Cardinality(ClassifiedPosts(users[pf_i].author_did))]_vars

\* The turn of author a in the last run ended in a database error.
DbFailed(a) == [author_did |-> a, error |-> "OperationalError"] \in pf_errors

\* C15: when an aggregation run is over, every author with at least
\* min_posts classified posts (whose turn met no database error) has a
\* profile row computed from the author's classifications (first_seen_at
\* apart, which C17 is about), and the run
\* created no profile row for an author with fewer classified posts.
C15_EveryEligibleAuthorHasProfile ==
    [][/\ (pf_pc = "loop" /\ pf_pc' = "done") =>
             \A a \in Authors :
                 (Cardinality(ClassifiedPosts(a)) >= min_posts /\ ~DbFailed(a)) =>
                     /\ HasProfile(a)
                     /\ \E classifications \in get_user_classifications(a) :
                           [ProfileOf(a) EXCEPT !.first_seen_at = UserRow(a).first_post] =
                               ProfileRow(build_user_profile(UserRow(a), classifications), now)
       /\ Len(user_profiles') > Len(user_profiles) =>
             Cardinality(ClassifiedPosts(users[pf_i].author_did)) >= min_posts]_vars

\* C16: when an aggregation run is over, every author of the run whose own
\* turn did not raise has the profile of this run, whatever happened in the
\* turns before.
C16_LaterAuthorsStillProcessed ==
    pf_pc = "done" =>
        \A i \in 1..Len(users) :
            (\A e \in pf_errors : e.author_did # users[i].author_did) =>
                /\ HasProfile(users[i].author_did)
                /\ ProfileOf(users[i].author_did).posts_analyzed = users[i].post_count
                /\ ProfileOf(users[i].author_did).last_seen_at = users[i].last_post

\* A run is over in which the turn of an author raised and a later author
\* got a profile.
C16_Witness ==
    /\ pf_pc = "done"
    /\ \E i, j \in 1..Len(users) :
          /\ i < j
          /\ \E e \in pf_errors : e.author_did = users[i].author_did
          /\ \A e \in pf_errors : e.author_did # users[j].author_did
          /\ HasProfile(users[j].author_did)

\* C17: a write over an existing profile row leaves every column of the
\* row other than author_did at the newly computed value.
C17_RewriteReplacesEveryField ==
    [][(user_profiles' # user_profiles /\ HasProfile(users[pf_i].author_did)) =>
          \E classifications \in get_user_classifications(users[pf_i].author_did) :
              ProfileIn(user_profiles', users[pf_i].author_did) =
                  ProfileRow(build_user_profile(users[pf_i], classifications), now)]_vars

\* C18: no exception of a cycle ends the loop of the classifier or the
\* loop of the sync.
C18_LoopsSurviveExceptions ==
    /\ \A r \in RunIds : pc[r] # "ended"
    /\ sync_loop # "ended"

\* C19: once a stop was requested, the classifier starts no batch and the
\* sync makes no call.
C19_NoCycleAfterShutdown ==
    [][shutdown => /\ \A r \in RunIds : ~BatchStarts(r)
                   /\ ~SyncCalled]_vars

\* v is a second most frequent value of items: one other value is at least
\* as frequent, every further value at most as frequent.
IsSecondMostFrequent(v, items) ==
    /\ v \in Range(items)
    /\ \E w \in Range(items) \ {v} :
          /\ Count(items, w) >= Count(items, v)
          /\ \A u \in Range(items) \ {v, w} : Count(items, u) <= Count(items, v)

\* The turn of the for loop on users[pf_i] ends in this step.
TurnEnds == pf_pc = "loop" /\ pf_i' = pf_i + 1

\* C21: no turn of an aggregation run ends in the IndexError of the
\* secondary consumer type, and the profile a turn writes carries as
\* secondary_consumer_type a second most frequent value of the author's
\* non-null, non-"unknown" consumer types when two such values exist, and
\* null otherwise.
C21_SecondaryTypeNeverRaises ==
    [][TurnEnds =>
          /\ [author_did |-> users[pf_i].author_did, error |-> "IndexError"] \notin pf_errors'
          /\ user_profiles' # user_profiles =>
                \E classifications \in get_user_classifications(users[pf_i].author_did) :
                    LET known == Known(Column(classifications, "consumer_type"))
                        stored == ProfileIn(user_profiles', users[pf_i].author_did).secondary_consumer_type
                    IN IF Cardinality(Range(known)) >= 2
                       THEN ~IsNull(stored) /\ IsSecondMostFrequent(stored, known)
                       ELSE IsNull(stored)]_vars

\* The row of the legacy table a sync run transfers onto the stored post i.
Incoming(i) ==
    {r \in RowsToSync(source, get_last_sync_timestamp) : r.uri = posts[i].uri}

\* C22: when a sync run transfers a row whose uri is stored, each of
\* text_content, facets, langs, has_media and embed_type that comes as null
\* keeps its stored value.
C22_IncomingNullKeepsStored ==
    [][SyncCompletes =>
          \A i \in 1..Len(posts) : \A r \in Incoming(i) :
              /\ IsNull(r.text) => posts'[i].text_content = posts[i].text_content
              /\ IsNull(r.facets) => posts'[i].facets = posts[i].facets
              /\ IsNull(r.langs) => posts'[i].langs = posts[i].langs
              /\ IsNull(r.has_media) => posts'[i].has_media = posts[i].has_media
              /\ IsNull(r.embed_type) => posts'[i].embed_type = posts[i].embed_type]_vars

\* C23: when a sync run transfers a row whose uri is stored, the stored
\* author_handle is afterwards the handle the row carries.
C23_HandleFollowsSource ==
    [][SyncCompletes =>
          \A i \in 1..Len(posts) : \A r \in Incoming(i) :
              posts'[i].author_handle = r.author_handle]_vars

\* The JSON object between the first '{' and the last '}' of an answer.
Recovered(outcome) ==
    IF outcome.kind \in {"json", "wrapped"} THEN Some(outcome.body) ELSE NULL

Called(fn) == call.fn = fn

\* C24: a call whose answer holds a JSON object between its first '{' and
\* its last '}' returns that object as the classification, also when the
\* answer as a whole is no JSON; a call returns a JSON decode error only
\* when there is no such object.
C24_RecoveryParse ==
    Called("classify_post_async") =>
        LET outcome == call.args[1] IN
           /\ ~IsNull(Recovered(outcome)) =>
                 /\ ~IsNull(call.result.classification)
                 /\ Val(call.result.classification).body = Val(Recovered(outcome))
           /\ call.result.error = Some("JSONDecodeError") => IsNull(Recovered(outcome))

\* The bucket of a span of whole days and a post count, from the weekly
\* rate post_count * 7 / days.
FrequencyBucket(days, post_count) ==
    IF days = 0 THEN "burst"
    ELSE IF post_count * 7 >= 7 * days THEN "daily"
    ELSE IF post_count * 7 >= 3 * days THEN "several_weekly"
    ELSE IF post_count * 7 >= days THEN "weekly"
    ELSE IF post_count * 28 >= days THEN "monthly"
    ELSE "occasional"

\* C25: the posting frequency is "unknown" when the first or the last post
\* time is missing, "burst" for a span of 0 days whatever the post count,
\* and otherwise the bucket of post_count * 7 / span_days (7 and more daily,
\* 3 and more several_weekly, 1 and more weekly, 0.25 and more monthly,
\* below that occasional); 7 posts over 7 days are daily and 2 posts over
\* 30 days are monthly.
C25_PostingFrequencyBuckets ==
    Called("calculate_posting_frequency") =>
        LET first_post == call.args[1]
            last_post == call.args[2]
            post_count == call.args[3]
        IN /\ (IsNull(first_post) \/ IsNull(last_post)) => call.result = "unknown"
           /\ (~IsNull(first_post) /\ ~IsNull(last_post)) =>
                 call.result =
                     FrequencyBucket((Val(last_post) - Val(first_post)) \div 2, post_count)
           /\ call.args = <<Some(0), Some(14), 7>> => call.result = "daily"
           /\ call.args = <<Some(0), Some(60), 2>> => call.result = "monthly"

\* The call of the second example has returned, and the arguments the calls
\* are made with reach every bucket.
C25_Witness ==
    /\ Called("calculate_posting_frequency")
    /\ call.args = <<Some(0), Some(60), 2>>
    /\ call.result = "monthly"
    /\ \A b \in {"unknown", "burst", "daily", "several_weekly", "weekly", "monthly", "occasional"} :
          \E last_post \in PostTimes, post_count \in 1..MaxPostCount :
              calculate_posting_frequency(Some(0), last_post, post_count) = b

\* x held between lo and hi.
Clamp(x, lo, hi) == IF x < lo THEN lo ELSE IF x > hi THEN hi ELSE x

\* The purchase intents of the claim's example: three classified posts.
ExampleIntents ==
    <<[purchase_intent |-> Some(80)], [purchase_intent |-> Some(60)],
      [purchase_intent |-> Some(0)]>>

\* C26: the dispensary score is 0.5 * (average of the non-null purchase
\* intents) + 10 * (number of purchase intents of 50 and more)
\* + 2 * post_count, truncated to an integer and held between 0 and 100;
\* for three posts with purchase intents 80, 60 and 0 it is 49.
C26_DispensaryScoreFormula ==
    Called("dispensary_score") =>
        LET post_count == call.args[1].post_count
            intents == NotNone(call.args[2], "purchase_intent")
            high == Cardinality({j \in 1..Len(intents) : intents[j] >= 50})
        IN /\ call.result =
                 Clamp(IF intents = <<>> THEN 10 * high + 2 * post_count
                       ELSE Trunc(Sum(intents) + 2 * Len(intents) * (10 * high + 2 * post_count),
                                  2 * Len(intents)),
                       0, 100)
           /\ call.args[2] = ExampleIntents => call.result = 49

\* A sync run that transferred rows completes in this step.
SyncTransfers == SyncCompletes /\ sync_log'[Len(sync_log')].posts_synced > 0

\* C27: when a sync run that transferred rows completes, MAX(indexed_at)
\* over posts is the last_indexed_at the run wrote to sync_log, and a run on
\* the same legacy table would select no row.
C27_WatermarkMatchesLog ==
    [][SyncTransfers =>
          /\ WatermarkOf(posts') = sync_log'[Len(sync_log')].last_indexed_at
          /\ RowsToSync(source, WatermarkOf(posts')) = {}]_vars

\* C28: when a sync run completes, every row of the legacy table it read
\* has its uri in posts.
C28_NoSourceRowSkipped ==
    [][SyncCompletes =>
          \A r \in Val(synced_source') : \E i \in 1..Len(posts') : posts'[i].uri = r.uri]_vars

\* C29: in continuous mode, every post with non-empty text that the API
\* does not refuse is eventually classified, whatever other posts are
\* refused on every attempt.
C29_EveryGoodPostClassified ==
    \A p \in 1..MaxSourceRows :
        (/\ p <= Len(posts)
         /\ p \in Unprocessed(posts)
         /\ ~Refused(posts[p]))
            ~> (p <= Len(posts) /\ ~IsNull(posts[p].processed_at) /\ HasRow(p))

\* A sync run, whatever it ends in.
SyncStep == sync_calls' # sync_calls

\* C30: in every reachable state, however sync, classification and
\* aggregation runs interleave, a post has a non-null processed_at if and
\* only if a classification row exists for it; a sync run changes neither
\* processed_at nor classification_version of a stored post.
C30_ProcessedIffClassified ==
    /\ [](\A p \in 1..Len(posts) : ~IsNull(posts[p].processed_at) <=> HasRow(p))
    /\ [][SyncStep =>
             \A p \in 1..Len(posts) :
                 /\ posts'[p].processed_at = posts[p].processed_at
                 /\ posts'[p].classification_version = posts[p].classification_version]_vars

\* Reached: a post classified before the last sync run was written again by
\* the indexer and transferred again by that run (it has the media of the
\* second capture), and is still marked as classified, with its row.
C30_Witness ==
    \E p \in 1..Len(posts) :
        /\ ~IsNull(posts[p].processed_at)
        /\ Val(posts[p].processed_at) < sync_log[Len(sync_log)].completed_at
        /\ posts[p].embed_type = RichMedia.embed_type
        /\ posts[p].classification_version = 1
        /\ HasRow(p)

====
